---- MODULE Spec2Model ----
(***************************************************************************)
(* Example scripts driving the LocalSolver engine.  Each script is a       *)
(* straight-line program: it may check its command line, create the        *)
(* solver, read an instance, declare a model, close it, set a budget,      *)
(* solve, and report.  The solver itself is external: a call to solve      *)
(* returns some solution of the closed model.                              *)
(*                                                                         *)
(* The module models                                                       *)
(*   - the control flow of the 38 scripts (one program per script),        *)
(*   - cvrp.read_input_cvrp token by token, and cvrp's solution writer,    *)
(*   - jobshop.read_instance,                                              *)
(*   - RevenueManagementFunction.evaluate, the black-box callback.         *)
(***************************************************************************)
EXTENDS Integers, Sequences, FiniteSets, TLC

\* ------------------------------------------------------------------------
\* Bounds of the model
\* ------------------------------------------------------------------------

\* len(sys.argv) ranges over 1..MaxArgc (the script name plus up to four
\* arguments; cvrp reads sys.argv[4]).
MaxArgc == 5

\* ------------------------------------------------------------------------
\* The scripts
\* ------------------------------------------------------------------------

\* The steps a script is made of.
\*   usage      if len(sys.argv) < 2: print usage; sys.exit(1)
\*   create     localsolver.LocalSolver()
\*   parse      open and read the instance file
\*   build      declare decision variables, constraints, objective
\*   close      model.close()
\*   time_limit ls.param.time_limit = ...          (always executed)
\*   time_limit_opt  if time_limit is not None: ls.param.time_limit = ...
\*   eval_limit context.evaluation_limit = ...
\*   iter_limit ls.param.iteration_limit = ...
\*   init       assignment of values to decision variables by the script
\*   solve      ls.solve()
\*   print      values of expressions read and printed to stdout
\*   write      values of expressions read and written to the output file
\*   nb_trucks  cvrp only: the number of trucks is determined
Ops ==
    {"usage", "create", "parse", "build", "close", "time_limit",
     "time_limit_opt", "eval_limit", "iter_limit", "init", "solve",
     "print", "write", "nb_trucks"}

\* Module-level scripts that start with the usage check and read
\* sys.argv[1] inside the solver's with-block.
ModuleLevelProgram ==
    <<"usage", "create", "parse", "build", "close", "time_limit", "solve", "write">>

\* Scripts whose __main__ checks the usage and whose main() reads the
\* instance before creating the solver.
MainProgram ==
    <<"usage", "parse", "create", "build", "close", "time_limit", "solve", "write">>

\* A knapsack that would call solve on a model still open: the step order
\* C1_StepOrder must reject it.
Prog_knapsack_solve_open ==
    <<"usage", "create", "parse", "build", "time_limit", "solve", "close", "write">>

Prog_car_sequencing == ModuleLevelProgram
Prog_curve_fitting == ModuleLevelProgram
Prog_facility_location == ModuleLevelProgram
Prog_flowshop == ModuleLevelProgram
Prog_kmeans == ModuleLevelProgram
Prog_knapsack == ModuleLevelProgram
Prog_qap == ModuleLevelProgram
Prog_smallest_circle == ModuleLevelProgram
Prog_social_golfer == ModuleLevelProgram
Prog_steel_mill_slab_design == ModuleLevelProgram

\* cvrp.main: after reading the instance the number of trucks is settled
\* (from sys.argv[4] or from the file name) before the solver is created.
Prog_cvrp ==
    <<"usage", "parse", "nb_trucks", "create", "build", "close", "time_limit", "solve", "write">>
Prog_pdptw == MainProgram
Prog_flexible_jobshop_with_setup_times == MainProgram
Prog_assembly_line_balancing ==
    <<"usage", "parse", "create", "build", "close", "time_limit", "init", "solve", "write">>
Prog_movie_shoot_scheduling ==
    <<"usage", "parse", "create", "build", "close", "time_limit", "solve", "print", "write">>

\* Scripts with every argument fixed in the source.
Prog_Quadratic_Assignment_Problem ==
    <<"create", "parse", "build", "close", "time_limit", "solve", "write">>
Prog_qap_ ==
    <<"create", "parse", "build", "close", "time_limit", "solve", "write">>
Prog_flow_shop ==
    <<"create", "parse", "build", "close", "time_limit", "solve", "write">>
Prog_aircraft_landing ==
    <<"parse", "create", "build", "close", "time_limit", "solve", "write">>
Prog_flexible_jobshop ==
    <<"parse", "create", "build", "close", "time_limit", "solve", "write">>
Prog_pooling ==
    <<"parse", "create", "build", "close", "time_limit", "solve", "write">>
Prog_jobshop ==
    <<"parse", "parse", "create", "build", "close", "time_limit", "solve", "print", "write">>
Prog_blending ==
    <<"create", "build", "close", "time_limit", "solve", "write">>
Prog_optimal_bucket_ ==
    <<"create", "build", "close", "time_limit", "solve", "write">>
Prog_black_box_optimizer ==
    <<"create", "build", "close", "eval_limit", "solve", "write">>
Prog_revenue_management_ ==
    <<"create", "build", "close", "time_limit", "eval_limit", "solve", "write">>

\* Scripts without instance file whose optional arguments are read from
\* sys.argv.
Prog_branin ==
    <<"create", "build", "close", "time_limit", "solve", "write">>
Prog_optimal_bucket ==
    <<"create", "build", "close", "time_limit", "solve", "write">>
Prog_hosaki ==
    <<"create", "build", "close", "eval_limit", "solve", "write">>
Prog_revenue_management ==
    <<"create", "build", "close", "time_limit_opt", "eval_limit", "solve", "write">>

\* A toy that would solve without any budget: C2_Budget must reject it.
Prog_toy_no_limit ==
    <<"create", "build", "close", "solve">>

\* Scripts that report on stdout only, or not at all.
Prog_toy ==
    <<"create", "build", "close", "time_limit", "solve">>
Prog_tsp ==
    <<"create", "parse", "build", "close", "time_limit", "solve", "print">>
Prog_tuple ==
    <<"create", "build", "close", "solve", "print">>
Prog_transport_v0 ==
    <<"create", "build", "close", "init", "iter_limit", "solve", "print">>
Prog_transport_v1 ==
    <<"create", "build", "close", "iter_limit", "solve", "print">>
Prog_transport_v3 ==
    <<"create", "build", "close", "iter_limit", "solve", "print">>
Prog_transport_v4 ==
    <<"create", "build", "close", "iter_limit", "solve", "print">>
Prog_transport_v5 ==
    <<"create", "build", "close", "iter_limit", "solve", "print">>

Scripts ==
    {"car_sequencing", "curve_fitting", "facility_location", "flowshop",
     "kmeans", "knapsack", "qap", "smallest_circle", "social_golfer",
     "steel_mill_slab_design", "cvrp", "pdptw",
     "flexible_jobshop_with_setup_times", "assembly_line_balancing",
     "movie_shoot_scheduling", "Quadratic_Assignment_Problem", "qap_",
     "flow_shop", "aircraft_landing", "flexible_jobshop", "pooling",
     "jobshop", "blending", "optimal_bucket_", "black_box_optimizer",
     "revenue_management_", "branin", "optimal_bucket", "hosaki",
     "revenue_management", "toy", "tsp", "tuple", "transport_v0",
     "transport_v1", "transport_v3", "transport_v4", "transport_v5"}

Program(s) ==
    CASE s = "car_sequencing" -> Prog_car_sequencing
      [] s = "curve_fitting" -> Prog_curve_fitting
      [] s = "facility_location" -> Prog_facility_location
      [] s = "flowshop" -> Prog_flowshop
      [] s = "kmeans" -> Prog_kmeans
      [] s = "knapsack" -> Prog_knapsack
      [] s = "qap" -> Prog_qap
      [] s = "smallest_circle" -> Prog_smallest_circle
      [] s = "social_golfer" -> Prog_social_golfer
      [] s = "steel_mill_slab_design" -> Prog_steel_mill_slab_design
      [] s = "cvrp" -> Prog_cvrp
      [] s = "pdptw" -> Prog_pdptw
      [] s = "flexible_jobshop_with_setup_times" -> Prog_flexible_jobshop_with_setup_times
      [] s = "assembly_line_balancing" -> Prog_assembly_line_balancing
      [] s = "movie_shoot_scheduling" -> Prog_movie_shoot_scheduling
      [] s = "Quadratic_Assignment_Problem" -> Prog_Quadratic_Assignment_Problem
      [] s = "qap_" -> Prog_qap_
      [] s = "flow_shop" -> Prog_flow_shop
      [] s = "aircraft_landing" -> Prog_aircraft_landing
      [] s = "flexible_jobshop" -> Prog_flexible_jobshop
      [] s = "pooling" -> Prog_pooling
      [] s = "jobshop" -> Prog_jobshop
      [] s = "blending" -> Prog_blending
      [] s = "optimal_bucket_" -> Prog_optimal_bucket_
      [] s = "black_box_optimizer" -> Prog_black_box_optimizer
      [] s = "revenue_management_" -> Prog_revenue_management_
      [] s = "branin" -> Prog_branin
      [] s = "optimal_bucket" -> Prog_optimal_bucket
      [] s = "hosaki" -> Prog_hosaki
      [] s = "revenue_management" -> Prog_revenue_management
      [] s = "toy" -> Prog_toy
      [] s = "tsp" -> Prog_tsp
      [] s = "tuple" -> Prog_tuple
      [] s = "transport_v0" -> Prog_transport_v0
      [] s = "transport_v1" -> Prog_transport_v1
      [] s = "transport_v3" -> Prog_transport_v3
      [] s = "transport_v4" -> Prog_transport_v4
      [] s = "transport_v5" -> Prog_transport_v5

\* Index in sys.argv of the output file path; 0 when the path is fixed in
\* the source (the write is then unconditional).  Only used by scripts whose
\* program has a "write" step.
OutputArgIndex(s) ==
    IF s \in {"car_sequencing", "curve_fitting", "facility_location", "flowshop",
              "kmeans", "knapsack", "qap", "smallest_circle", "social_golfer",
              "steel_mill_slab_design", "cvrp", "pdptw",
              "flexible_jobshop_with_setup_times", "assembly_line_balancing",
              "movie_shoot_scheduling"}
    THEN 2
    ELSE IF s \in {"branin", "optimal_bucket", "hosaki", "revenue_management"}
    THEN 1
    ELSE 0

\* A writing guard one argument short: C3_Output must reject it.
WritesOutput_one_short(s, nargs) == nargs >= OutputArgIndex(s)

\* The guard of the writing block: "if len(sys.argv) >= 3", "if output_file
\* is not None", ... : the output path argument is present.
WritesOutput(s, nargs) == nargs > OutputArgIndex(s)

\* A usage check that lets an empty command line through: C9_Usage must
\* reject it.
UsageFails_never(nargs) == nargs < 1

\* The guard of the usage check: "if len(sys.argv) < 2".
UsageFails(nargs) == nargs < 2

\* revenue_management: time_limit = int(sys.argv[2]) if len(sys.argv) > 2
\* else None, and the limit is set only when it is not None.
TimeLimitGiven(nargs) == nargs > 2

\* Scripts whose instance reader is modelled step by step below.
DetailedReaders == {"cvrp", "jobshop"}

\* steel_mill_slab_design: pre_compute_waste_for_content exits with status 1
\* when the slab sizes of the instance are not sorted.
ParseMayExit == {"steel_mill_slab_design"}

\* ------------------------------------------------------------------------
\* State
\* ------------------------------------------------------------------------
VARIABLES
    script,        \* the script being run
    argc,          \* len(sys.argv)
    pc,            \* index of the next step of Program(script)
    status,        \* "running", "done", "exit1" (sys.exit(1)), "uncaught"
    usagePrinted,  \* the usage line was printed
    created,       \* a LocalSolver environment exists
    opened,        \* the instance file was opened
    parsed,        \* the instance data is read
    built,         \* the model is declared
    closed,        \* model.close() was called
    timeLimitSet,  \* ls.param.time_limit was assigned
    evalLimitSet,  \* the black-box context's evaluation_limit was assigned
    iterLimitSet,  \* ls.param.iteration_limit was assigned
    solveState,    \* "idle", "solving", "returned"
    initialized,   \* the script assigned values to decision variables
    valuesRead,    \* the script read values of expressions for reporting
    printed,       \* values were printed to stdout
    written,       \* values were written to the output file
    \* ---- cvrp.read_input_cvrp and cvrp.main
    rd,            \* position of the reader: "none", "header", "coords",
                   \* "demands", "returned"
    n,             \* loop index of the section being read
    read,          \* what the last step of the reader consumed
    nb_nodes, nb_customers, truck_capacity,
    unbound,       \* local names of read_input_cvrp not assigned yet
    depot_x, depot_y, customers_x, customers_y, demands,
    file_nodes,    \* lines of NODE_COORD_SECTION consumed so far
    file_demands,  \* lines of DEMAND_SECTION consumed so far
    nb_trucks,
    routes,        \* customers_sequences[k].value after solve
    sol_out,       \* lines written to the solution file
    \* ---- jobshop.read_instance
    js_file,       \* the instance file, once it has been read
    nb_jobs, nb_machines, processing_times_in_processing_order,
    machine_order, processing_time, max_start,
    \* ---- RevenueManagementFunction.evaluate
    ev,                 \* "idle"; "running" while evaluate executes;
                        \* "returned" once it has handed back a value
    argument_values,    \* the point being evaluated
    sim_i, period_j,    \* loop indices i and j
    X_i,                \* X[i], in tenths
    remaining_capacity,
    sum_profit,
    last,               \* the period executed last: its index, the capacity
                        \* before it, the reservation, the demand, the units
                        \* sold, and the units sold so far in its simulation
    mean_revenue_n,     \* the value returned last, times the number of simulations
    \* ---- pdptw.read_input_pdptw and pdptw.main (which also use the names
    \* nb_customers, nb_trucks, truck_capacity, demands, customers_x,
    \* customers_y, routes and sol_out above; warehouse_x and warehouse_y
    \* are held in depot_x and depot_y)
    pd_file,            \* the instance file, once it has been read
    service_time, earliest_start, latest_end, pickUpIndex, deliveryIndex,
    max_horizon,
    \* ---- car_sequencing
    car_instance,       \* the instance data, once read: nb_positions,
                        \* nb_options, nb_classes, max_cars_per_window,
                        \* window_size, nb_cars, options
    total_violations_operands,  \* the operands of the sum total_violations,
                        \* each the pair <<o, p>> of nb_violations_windows[o][p]
    class_on_pos,       \* class_on_pos[c][p].value after solve
    car_out,            \* the objective value written to the solution file
    \* ---- movie_shoot_scheduling: MssInstance and CostFunction
    mss_data,           \* the MssInstance, once read
    shoot_order,        \* context[0] of the last call of compute_cost
    cost_state,         \* "idle"; after a call of compute_cost, "maxsize"
                        \* when it returned sys.maxsize and "value" otherwise
    cost_value          \* the value returned when cost_state is "value"

flowVars ==
    <<usagePrinted, created, opened, parsed, built, closed, timeLimitSet,
      evalLimitSet, iterLimitSet, solveState, initialized, valuesRead,
      printed, written>>

flowVarsButParsed ==
    <<usagePrinted, created, opened, built, closed, timeLimitSet,
      evalLimitSet, iterLimitSet, solveState, initialized, valuesRead,
      printed, written>>

cvrpData ==
    <<nb_nodes, nb_customers, truck_capacity, unbound, depot_x, depot_y, customers_x,
      customers_y, demands, file_nodes, file_demands>>

cvrpVars == <<rd, n, read, cvrpData, nb_trucks, routes, sol_out>>

jobshopVars ==
    <<js_file, nb_jobs, nb_machines, processing_times_in_processing_order,
      machine_order, processing_time, max_start>>

revenueVars ==
    <<ev, argument_values, sim_i, period_j, X_i, remaining_capacity,
      sum_profit, last, mean_revenue_n>>

pdptwVars ==
    <<pd_file, service_time, earliest_start, latest_end, pickUpIndex,
      deliveryIndex, max_horizon>>

carVars == <<car_instance, total_violations_operands, class_on_pos, car_out>>

movieVars == <<mss_data, shoot_order, cost_state, cost_value>>

extraVars == <<pdptwVars, carVars, movieVars>>

\* what the cvrp steps leave alone
otherVars == <<jobshopVars, revenueVars, extraVars>>

detailVars == <<cvrpVars, otherVars>>

vars == <<script, argc, pc, status, flowVars, detailVars>>

\* Python's None.
None == "None"

Init ==
    /\ script \in Scripts
    /\ argc \in 1..MaxArgc
    /\ pc = 1
    /\ status = "running"
    /\ usagePrinted = FALSE
    /\ created = FALSE
    /\ opened = FALSE
    /\ parsed = FALSE
    /\ built = FALSE
    /\ closed = FALSE
    /\ timeLimitSet = FALSE
    /\ evalLimitSet = FALSE
    /\ iterLimitSet = FALSE
    /\ solveState = "idle"
    /\ initialized = FALSE
    /\ valuesRead = FALSE
    /\ printed = FALSE
    /\ written = FALSE
    /\ rd = "none"
    /\ n = 0
    /\ read = [phase |-> "none", n |-> 0, tokens |-> <<>>]
    /\ nb_nodes = 0
    /\ nb_customers = 0
    /\ truck_capacity = 0
    /\ unbound = {"nb_customers", "truck_capacity"}
    /\ depot_x = 0
    /\ depot_y = 0
    /\ customers_x = <<>>
    /\ customers_y = <<>>
    /\ demands = <<>>
    /\ file_nodes = <<>>
    /\ file_demands = <<>>
    /\ nb_trucks = 0
    /\ routes = <<>>
    /\ sol_out = <<>>
    /\ js_file = [nb_jobs |-> 0, nb_machines |-> 0, times |-> <<>>, machines |-> <<>>]
    /\ nb_jobs = 0
    /\ nb_machines = 0
    /\ processing_times_in_processing_order = <<>>
    /\ machine_order = <<>>
    /\ processing_time = <<>>
    /\ max_start = 0
    /\ ev = "idle"
    /\ argument_values = <<0, 0, 0>>
    /\ sim_i = 0
    /\ period_j = 0
    /\ X_i = 0
    /\ remaining_capacity = 0
    /\ sum_profit = 0
    /\ last = [period |-> 0, before |-> 0, reserved |-> 0, demand |-> 0,
               sold |-> 0, sold_total |-> 0, done |-> FALSE]
    /\ mean_revenue_n = 0
    /\ pd_file = [nb_trucks |-> 0, truck_capacity |-> 0, max_horizon |-> 0,
                  warehouse |-> <<0, 0>>, lines |-> <<>>]
    /\ service_time = <<>>
    /\ earliest_start = <<>>
    /\ latest_end = <<>>
    /\ pickUpIndex = <<>>
    /\ deliveryIndex = <<>>
    /\ max_horizon = 0
    /\ car_instance = [nb_positions |-> 0, nb_options |-> 0, nb_classes |-> 0,
                       max_cars_per_window |-> <<>>, window_size |-> <<>>,
                       nb_cars |-> <<>>, options |-> <<>>]
    /\ total_violations_operands = <<>>
    /\ class_on_pos = <<>>
    /\ car_out = 0
    /\ mss_data = [nb_actors |-> 0, nb_scenes |-> 0, nb_locations |-> 0,
                   nb_precedences |-> 0, actor_cost |-> <<>>,
                   location_cost |-> <<>>, scene_duration |-> <<>>,
                   scene_location |-> <<>>, is_actor_in_scene |-> <<>>,
                   actor_nb_worked_days |-> <<>>]
    /\ shoot_order = <<>>
    /\ cost_state = "idle"
    /\ cost_value = 0

\* The step the script is about to execute.
Running == status = "running"
AtEnd == pc > Len(Program(script))
Op == IF AtEnd THEN "end" ELSE Program(script)[pc]
At(op) == Running /\ ~AtEnd /\ Op = op

\* ------------------------------------------------------------------------
\* Steps common to the scripts
\* ------------------------------------------------------------------------

\* if len(sys.argv) < 2: print("Usage: ..."); sys.exit(1)
Usage ==
    /\ At("usage")
    /\ IF UsageFails(argc)
       THEN /\ usagePrinted' = TRUE
            /\ status' = "exit1"
            /\ pc' = pc
       ELSE /\ pc' = pc + 1
            /\ UNCHANGED <<usagePrinted, status>>
    /\ UNCHANGED <<script, argc, created, opened, parsed, built, closed,
                   timeLimitSet, evalLimitSet, iterLimitSet, solveState,
                   initialized, valuesRead, printed, written, detailVars>>

\* with localsolver.LocalSolver() as ls:
CreateSolver ==
    /\ At("create")
    /\ created' = TRUE
    /\ pc' = pc + 1
    /\ UNCHANGED <<script, argc, status, usagePrinted, opened, parsed, built,
                   closed, timeLimitSet, evalLimitSet, iterLimitSet,
                   solveState, initialized, valuesRead, printed, written,
                   detailVars>>

\* The instance file is opened and read into primitive arrays.
ReadInstance ==
    /\ At("parse")
    /\ script \notin DetailedReaders
    /\ opened' = TRUE
    /\ \/ /\ parsed' = TRUE
          /\ pc' = pc + 1
          /\ UNCHANGED status
       \/ /\ script \in ParseMayExit
          /\ status' = "exit1"
          /\ UNCHANGED <<parsed, pc>>
    /\ UNCHANGED <<script, argc, usagePrinted, created, built, closed,
                   timeLimitSet, evalLimitSet, iterLimitSet, solveState,
                   initialized, valuesRead, printed, written, detailVars>>

\* Decision variables, constraints and objective are declared.
Build ==
    /\ At("build")
    /\ built' = TRUE
    /\ pc' = pc + 1
    /\ UNCHANGED <<script, argc, status, usagePrinted, created, opened, parsed,
                   closed, timeLimitSet, evalLimitSet, iterLimitSet,
                   solveState, initialized, valuesRead, printed, written,
                   detailVars>>

\* model.close()
Close ==
    /\ At("close")
    /\ closed' = TRUE
    /\ pc' = pc + 1
    /\ UNCHANGED <<script, argc, status, usagePrinted, created, opened, parsed,
                   built, timeLimitSet, evalLimitSet, iterLimitSet,
                   solveState, initialized, valuesRead, printed, written,
                   detailVars>>

\* ls.param.time_limit = ...
SetTimeLimit ==
    /\ \/ At("time_limit") /\ timeLimitSet' = TRUE
       \/ At("time_limit_opt") /\ timeLimitSet' = TimeLimitGiven(argc)
    /\ pc' = pc + 1
    /\ UNCHANGED <<script, argc, status, usagePrinted, created, opened, parsed,
                   built, closed, evalLimitSet, iterLimitSet, solveState,
                   initialized, valuesRead, printed, written, detailVars>>

\* context.evaluation_limit = evaluation_limit
SetEvaluationLimit ==
    /\ At("eval_limit")
    /\ evalLimitSet' = TRUE
    /\ pc' = pc + 1
    /\ UNCHANGED <<script, argc, status, usagePrinted, created, opened, parsed,
                   built, closed, timeLimitSet, iterLimitSet, solveState,
                   initialized, valuesRead, printed, written, detailVars>>

\* ls.param.iteration_limit = 300000
SetIterationLimit ==
    /\ At("iter_limit")
    /\ iterLimitSet' = TRUE
    /\ pc' = pc + 1
    /\ UNCHANGED <<script, argc, status, usagePrinted, created, opened, parsed,
                   built, closed, timeLimitSet, evalLimitSet, solveState,
                   initialized, valuesRead, printed, written, detailVars>>

\* x[0][0].value = 1456 ... / station[i].value.add(i): the script gives
\* decision variables a value itself.
InitializeValues ==
    /\ At("init")
    /\ initialized' = TRUE
    /\ pc' = pc + 1
    /\ UNCHANGED <<script, argc, status, usagePrinted, created, opened, parsed,
                   built, closed, timeLimitSet, evalLimitSet, iterLimitSet,
                   solveState, valuesRead, printed, written, detailVars>>

\* ls.solve() is called: control is in the solver.
SolveCall ==
    /\ At("solve")
    /\ solveState = "idle"
    /\ solveState' = "solving"
    /\ UNCHANGED <<script, argc, pc, status, usagePrinted, created, opened,
                   parsed, built, closed, timeLimitSet, evalLimitSet,
                   iterLimitSet, initialized, valuesRead, printed, written,
                   detailVars>>

\* print(obj.value) ...
PrintValues ==
    /\ At("print")
    /\ valuesRead' = TRUE
    /\ printed' = TRUE
    /\ pc' = pc + 1
    /\ UNCHANGED <<script, argc, status, usagePrinted, created, opened, parsed,
                   built, closed, timeLimitSet, evalLimitSet, iterLimitSet,
                   solveState, initialized, written, detailVars>>

\* The script runs off its last statement: exit status 0.
Finish ==
    /\ Running
    /\ AtEnd
    /\ status' = "done"
    /\ UNCHANGED <<script, argc, pc, flowVars, detailVars>>

\* ------------------------------------------------------------------------
\* cvrp: read_input_cvrp, token by token
\* ------------------------------------------------------------------------

MaxNodes == 3
MaxTrucks == 2

\* next(file_it) on an exhausted iterator raises StopIteration.
EOF == "<eof>"

\* int(token) for the numerals that occur in the modelled files; any other
\* token makes int() raise ValueError.
Numerals ==
    [t \in {"-1", "0", "1", "2", "3", "4", "5", "6", "7", "8", "9", "10"} |->
        CASE t = "-1" -> -1 [] t = "0" -> 0 [] t = "1" -> 1 [] t = "2" -> 2
          [] t = "3" -> 3 [] t = "4" -> 4 [] t = "5" -> 5 [] t = "6" -> 6
          [] t = "7" -> 7 [] t = "8" -> 8 [] t = "9" -> 9 [] t = "10" -> 10]
IsNumeral(t) == t \in DOMAIN Numerals
int(t) == Numerals[t]
NumeralOf(i) == CHOOSE t \in DOMAIN Numerals : Numerals[t] = i

\* Tokens the environment may supply at each place of the file.
HeaderTokens ==
    {"NAME", "DIMENSION", "CAPACITY", "EDGE_WEIGHT_TYPE", "NODE_COORD_SECTION", EOF}
DimensionTokens == {NumeralOf(i) : i \in 1..MaxNodes}
CapacityTokens == {"10"}
EdgeWeightTypes == {"EUC_2D", "EXPLICIT"}
IndexTokens == {NumeralOf(i) : i \in 1..(MaxNodes + 1)} \cup {"x", EOF}
Points == {<<"0", "0">>, <<"3", "4">>}
DemandTokens == {"0", "1", "2"}
SectionTokens == {"DEMAND_SECTION", "DEPOT_SECTION", "EOF_MARK", EOF}
WarehouseTokens == {"1", "2"}
EndTokens == {"-1", "0"}

\* A Python list of the given length, indexed from 0.
PyList(len, v) == [i \in 0..(len - 1) |-> v]

\* "if node_id != n+1: print('Unexpected index'); sys.exit(1)"
IndexOk(node_id, k) == node_id = k + 1

\* "-2 because orginal customer indices are in 2..nbNodes"
CustomerIndex(node_id) == node_id - 2

\* A reader that accepts explicit edge weights: C4_Malformed must reject it.
EdgeWeightTypeOk_explicit(token) == token \in {"EUC_2D", "EXPLICIT"}

\* "if token != 'EUC_2D'"
EdgeWeightTypeOk(token) == token = "EUC_2D"

\* "if int(next(file_it)) != 0: print('Demand for depot should be 0')"
DepotDemandOk(d) == d = 0

\* "if token != 'DEMAND_SECTION'" / "if token != 'DEPOT_SECTION'"
SectionTokenOk(token, expected) == token = expected

\* "if warehouse_id != 1" and "if end_of_depot_section != -1"
WarehouseOk(warehouse_id) == warehouse_id = 1
EndOfDepotOk(end_of_depot_section) == end_of_depot_section = -1

InCvrpReader == script = "cvrp" /\ At("parse")

\* What a reader step consumed: where the reader was, and the tokens that
\* next(file_it) returned during the step.
Consumed(tokens) == [phase |-> rd, n |-> n, tokens |-> tokens]

\* Outcomes of a reader step that leave read_input_cvrp abruptly:
\* sys.exit(1) ("exit1") or an exception nobody catches ("uncaught").
CvrpStop(how, tokens) ==
    /\ status' = how
    /\ read' = Consumed(tokens)
    /\ UNCHANGED <<pc, parsed, rd, n, cvrpData>>

\* file_it = iter(read_elem(sys.argv[1])); nb_nodes = 0
ReadElem ==
    /\ InCvrpReader
    /\ rd = "none"
    /\ opened' = TRUE
    /\ rd' = "header"
    /\ nb_nodes' = 0
    /\ UNCHANGED <<script, argc, pc, status, usagePrinted, created, parsed,
                   built, closed, timeLimitSet, evalLimitSet, iterLimitSet,
                   solveState, initialized, valuesRead, printed, written,
                   n, read, nb_customers, truck_capacity, unbound, depot_x,
                   depot_y, customers_x, customers_y, demands, file_nodes,
                   file_demands, nb_trucks, routes, sol_out, otherVars>>

\* One iteration of the header loop "while(1): token = next(file_it) ...".
HeaderStep ==
    /\ InCvrpReader
    /\ rd = "header"
    /\ \E token \in HeaderTokens :
         CASE token = EOF -> CvrpStop("uncaught", <<token>>)
           [] token = "DIMENSION" ->
                \E v \in DimensionTokens :
                    /\ nb_nodes' = int(v)
                    /\ nb_customers' = int(v) - 1
                    /\ unbound' = unbound \ {"nb_customers"}
                    /\ read' = Consumed(<<token, ":", v>>)
                    /\ UNCHANGED <<pc, status, parsed, rd, n, truck_capacity,
                                   depot_x, depot_y, customers_x, customers_y,
                                   demands, file_nodes, file_demands>>
           [] token = "CAPACITY" ->
                \E v \in CapacityTokens :
                    /\ truck_capacity' = int(v)
                    /\ unbound' = unbound \ {"truck_capacity"}
                    /\ read' = Consumed(<<token, ":", v>>)
                    /\ UNCHANGED <<pc, status, parsed, rd, n, nb_nodes,
                                   nb_customers, depot_x, depot_y, customers_x,
                                   customers_y, demands, file_nodes, file_demands>>
           [] token = "EDGE_WEIGHT_TYPE" ->
                \E t \in EdgeWeightTypes :
                    IF EdgeWeightTypeOk(t)
                    THEN /\ read' = Consumed(<<token, ":", t>>)
                         /\ UNCHANGED <<pc, status, parsed, rd, n, cvrpData>>
                    ELSE CvrpStop("exit1", <<token, ":", t>>)
           [] token = "NODE_COORD_SECTION" ->
                \* break; customers_x = [None]*nb_customers
                IF "nb_customers" \in unbound
                THEN CvrpStop("uncaught", <<token>>)
                ELSE /\ rd' = "coords"
                     /\ n' = 0
                     /\ customers_x' = PyList(nb_customers, None)
                     /\ customers_y' = PyList(nb_customers, None)
                     /\ depot_x' = 0
                     /\ depot_y' = 0
                     /\ read' = Consumed(<<token>>)
                     /\ UNCHANGED <<pc, status, parsed, nb_nodes, nb_customers,
                                    truck_capacity, unbound, demands,
                                    file_nodes, file_demands>>
           [] OTHER ->
                /\ read' = Consumed(<<token>>)
                /\ UNCHANGED <<pc, status, parsed, rd, n, cvrpData>>
    /\ UNCHANGED <<script, argc, flowVarsButParsed, nb_trucks, routes, sol_out, otherVars>>

\* One iteration of "for n in range(nb_nodes)" over NODE_COORD_SECTION.
CoordStep ==
    /\ InCvrpReader
    /\ rd = "coords"
    /\ n < nb_nodes
    /\ \E token \in IndexTokens :
         IF ~IsNumeral(token)
         THEN CvrpStop("uncaught", <<token>>)
         ELSE LET node_id == int(token) IN
              IF ~IndexOk(node_id, n)
              THEN CvrpStop("exit1", <<token>>)
              ELSE \E pt \in Points :
                     /\ IF node_id = 1
                        THEN /\ depot_x' = int(pt[1])
                             /\ depot_y' = int(pt[2])
                             /\ UNCHANGED <<customers_x, customers_y>>
                        ELSE /\ customers_x' =
                                  [customers_x EXCEPT ![CustomerIndex(node_id)] = int(pt[1])]
                             /\ customers_y' =
                                  [customers_y EXCEPT ![CustomerIndex(node_id)] = int(pt[2])]
                             /\ UNCHANGED <<depot_x, depot_y>>
                     /\ file_nodes' = Append(file_nodes, <<token, pt[1], pt[2]>>)
                     /\ n' = n + 1
                     /\ read' = Consumed(<<token, pt[1], pt[2]>>)
                     /\ UNCHANGED <<pc, status, parsed, rd, nb_nodes, nb_customers,
                                    truck_capacity, unbound, demands,
                                    file_demands>>
    /\ UNCHANGED <<script, argc, flowVarsButParsed, nb_trucks, routes, sol_out, otherVars>>

\* After the coordinates: the distance matrices are computed and the token
\* DEMAND_SECTION is expected; demands = [None]*nb_customers.
DemandSection ==
    /\ InCvrpReader
    /\ rd = "coords"
    /\ n = nb_nodes
    /\ \E token \in SectionTokens :
         IF token = EOF
         THEN CvrpStop("uncaught", <<token>>)
         ELSE IF ~SectionTokenOk(token, "DEMAND_SECTION")
         THEN CvrpStop("exit1", <<token>>)
         ELSE /\ rd' = "demands"
              /\ n' = 0
              /\ demands' = PyList(nb_customers, None)
              /\ read' = Consumed(<<token>>)
              /\ UNCHANGED <<pc, status, parsed, nb_nodes, nb_customers,
                             truck_capacity, unbound, depot_x, depot_y,
                             customers_x, customers_y, file_nodes,
                             file_demands>>
    /\ UNCHANGED <<script, argc, flowVarsButParsed, nb_trucks, routes, sol_out, otherVars>>

\* One iteration of "for n in range(nb_nodes)" over DEMAND_SECTION.
DemandStep ==
    /\ InCvrpReader
    /\ rd = "demands"
    /\ n < nb_nodes
    /\ \E token \in IndexTokens :
         IF ~IsNumeral(token)
         THEN CvrpStop("uncaught", <<token>>)
         ELSE LET node_id == int(token) IN
              IF ~IndexOk(node_id, n)
              THEN CvrpStop("exit1", <<token>>)
              ELSE \E d \in DemandTokens :
                     IF node_id = 1 /\ ~DepotDemandOk(int(d))
                     THEN CvrpStop("exit1", <<token, d>>)
                     ELSE /\ demands' =
                               IF node_id = 1 THEN demands
                               ELSE [demands EXCEPT ![CustomerIndex(node_id)] = int(d)]
                          /\ file_demands' = Append(file_demands, <<token, d>>)
                          /\ n' = n + 1
                          /\ read' = Consumed(<<token, d>>)
                          /\ UNCHANGED <<pc, status, parsed, rd, nb_nodes,
                                         nb_customers, truck_capacity, unbound,
                                         depot_x, depot_y, customers_x,
                                         customers_y, file_nodes>>
    /\ UNCHANGED <<script, argc, flowVarsButParsed, nb_trucks, routes, sol_out, otherVars>>

\* After the demands: DEPOT_SECTION, the warehouse id, the closing -1, and
\* the return of the instance tuple (which reads truck_capacity).
DepotSection ==
    /\ InCvrpReader
    /\ rd = "demands"
    /\ n = nb_nodes
    /\ \E token \in SectionTokens, w \in WarehouseTokens, e \in EndTokens :
         IF token = EOF
         THEN CvrpStop("uncaught", <<token>>)
         ELSE IF ~SectionTokenOk(token, "DEPOT_SECTION")
         THEN CvrpStop("exit1", <<token>>)
         ELSE IF ~WarehouseOk(int(w))
         THEN CvrpStop("exit1", <<token, w>>)
         ELSE IF ~EndOfDepotOk(int(e))
         THEN CvrpStop("exit1", <<token, w, e>>)
         ELSE IF "truck_capacity" \in unbound
         THEN CvrpStop("uncaught", <<token, w, e>>)
         ELSE /\ rd' = "returned"
              /\ parsed' = TRUE
              /\ pc' = pc + 1
              /\ read' = Consumed(<<token, w, e>>)
              /\ UNCHANGED <<status, n, cvrpData>>
    /\ UNCHANGED <<script, argc, flowVarsButParsed, nb_trucks, routes, sol_out, otherVars>>

\* ------------------------------------------------------------------------
\* cvrp: distances, the solver's answer and the solution file
\* ------------------------------------------------------------------------

\* int(math.floor(math.sqrt((xi-xj)^2 + (yi-yj)^2) + 0.5)): the distance
\* rounded to the nearest integer.
compute_dist(xi, xj, yi, yj) ==
    LET sq == (xi - xj) * (xi - xj) + (yi - yj) * (yi - yj) IN
    CHOOSE d \in 0..sq :
        \/ d = 0 /\ sq = 0
        \/ /\ d >= 1
           /\ (2 * d - 1) * (2 * d - 1) <= 4 * sq
           /\ 4 * sq < (2 * d + 1) * (2 * d + 1)

compute_distance_matrix(cx, cy) ==
    [i \in DOMAIN cx |-> [j \in DOMAIN cx |-> compute_dist(cx[i], cx[j], cy[i], cy[j])]]

compute_distance_warehouses(dx, dy, cx, cy) ==
    [i \in DOMAIN cx |-> compute_dist(dx, cx[i], dy, cy[i])]

\* nb_trucks = int(str_nb_trucks); if nb_trucks == 0: nb_trucks =
\* get_nb_trucks(instance_file).  str_nb_trucks is sys.argv[4] when present
\* and "0" otherwise; the file name carries "-k<number>." or does not
\* (inName = 0), and then get_nb_trucks exits with status 1.
GetNbTrucks ==
    /\ At("nb_trucks")
    /\ \E arg \in 0..MaxTrucks, inName \in 0..MaxTrucks :
         /\ (argc <= 4) => (arg = 0)
         /\ (arg # 0) => (inName = 0)
         /\ IF arg # 0
            THEN nb_trucks' = arg /\ pc' = pc + 1 /\ UNCHANGED status
            ELSE IF inName # 0
            THEN nb_trucks' = inName /\ pc' = pc + 1 /\ UNCHANGED status
            ELSE status' = "exit1" /\ UNCHANGED <<nb_trucks, pc>>
    /\ UNCHANGED <<script, argc, flowVars, rd, n, read, cvrpData, routes, sol_out, otherVars>>

\* The sequences of length Cardinality(S) that enumerate S.
Perms(S) ==
    {q \in [1..Cardinality(S) -> S] : \A a, b \in 1..Cardinality(S) : q[a] = q[b] => a = b}

\* The values a list variable can hold: the enumerations of the subsets of
\* the customers 0..nbCustomers-1.
ListValues(nbCustomers) ==
    UNION {Perms(S) : S \in SUBSET (0..(nbCustomers - 1))}

Range(q) == {q[i] : i \in DOMAIN q}

\* The values the list variables can hold once the solver returns: the
\* customers partitioned over the trucks (model.partition), each part in
\* some order.
Solutions(nbCustomers, nbTrucks) ==
    {r \in [0..(nbTrucks - 1) -> ListValues(nbCustomers)] :
        /\ \A c \in 0..(nbCustomers - 1) : \E k \in 0..(nbTrucks - 1) : c \in Range(r[k])
        /\ \A k1, k2 \in 0..(nbTrucks - 1) :
              k1 # k2 => Range(r[k1]) \cap Range(r[k2]) = {}}

\* ls.solve() returns.  For cvrp the list variables now hold a solution.
SolveReturn ==
    /\ At("solve")
    /\ solveState = "solving"
    /\ ev # "running"
    /\ solveState' = "returned"
    /\ pc' = pc + 1
    /\ IF script = "cvrp"
       THEN routes' \in Solutions(nb_customers, nb_trucks)
       ELSE UNCHANGED routes
    /\ UNCHANGED <<script, argc, status, usagePrinted, created, opened, parsed,
                   built, closed, timeLimitSet, evalLimitSet, iterLimitSet,
                   initialized, valuesRead, printed, written,
                   rd, n, read, cvrpData, nb_trucks, sol_out, otherVars>>

RECURSIVE SumTo(_, _)
\* sum of f[i] for i in 0..(k-1)
SumTo(f, k) == IF k = 0 THEN 0 ELSE f[k - 1] + SumTo(f, k - 1)

\* trucks_used[k].value: count(customers_sequences[k]) > 0
truck_used(r, k) == Len(r[k]) > 0

\* nb_trucks_used.value
nb_trucks_used(r) == Cardinality({k \in DOMAIN r : truck_used(r, k)})

\* route_distances[k].value: the legs between consecutive customers plus,
\* for a non-empty route, the legs from and to the warehouse.
route_distance(r, k) ==
    LET c == Len(r[k])
        dm == compute_distance_matrix(customers_x, customers_y)
        dw == compute_distance_warehouses(depot_x, depot_y, customers_x, customers_y)
        legs == [i \in 0..(c - 2) |-> dm[r[k][i + 1]][r[k][i + 2]]]
    IN  SumTo(legs, c - 1 + (IF c = 0 THEN 1 ELSE 0))
        + (IF c > 0 THEN dw[r[k][1]] + dw[r[k][c]] ELSE 0)

\* total_distance.value
total_distance(r) ==
    SumTo([k \in DOMAIN r |-> route_distance(r, k)], Cardinality(DOMAIN r))

\* A writer that shifts by one only: C10_RoundTrip must reject it.
OutputId_plus_one(customer) == customer + 1

\* "+2 is to put it back in [2..nbCustomers+1] as in the data files"
OutputId(customer) == customer + 2

RECURSIVE UsedRoutes(_, _)
\* the routes of the trucks k..nb_trucks-1 that are used, in order
UsedRoutes(r, k) ==
    IF k >= Cardinality(DOMAIN r) THEN <<>>
    ELSE (IF truck_used(r, k)
          THEN <<[i \in 1..Len(r[k]) |-> OutputId(r[k][i])]>>
          ELSE <<>>) \o UsedRoutes(r, k + 1)

\* The lines of the solution file: "nb_trucks_used total_distance", then
\* for each truck used the nodes visited.
SolutionLines(r) ==
    <<<<nb_trucks_used(r), total_distance(r)>>>> \o UsedRoutes(r, 0)

\* The writing block at the end of a script, guarded by the presence of
\* the output path.
WriteOutput ==
    /\ At("write")
    /\ pc' = pc + 1
    /\ IF WritesOutput(script, argc)
       THEN /\ valuesRead' = TRUE
            /\ written' = TRUE
            /\ sol_out' = IF script = "cvrp" THEN SolutionLines(routes) ELSE sol_out
       ELSE UNCHANGED <<valuesRead, written, sol_out>>
    /\ UNCHANGED <<script, argc, status, usagePrinted, created, opened, parsed,
                   built, closed, timeLimitSet, evalLimitSet, iterLimitSet,
                   solveState, initialized, printed,
                   rd, n, read, cvrpData, nb_trucks, routes, otherVars>>

\* ------------------------------------------------------------------------
\* jobshop: read_instance
\* ------------------------------------------------------------------------

MaxJobs == 2
MaxMachines == 3

\* Processing times as given in the file, in processing order.
TimesDistinct(i, k) == 10 * (i + 1) + k
TimesEqual(i, k) == 1
TimeTables(nj, nm) ==
    {[i \in 0..(nj - 1) |-> [k \in 0..(nm - 1) |-> TimesDistinct(i, k)]],
     [i \in 0..(nj - 1) |-> [k \in 0..(nm - 1) |-> TimesEqual(i, k)]]}

\* A line of machines of the file: the machines 1..nm in some order, or
\* (as an ill-formed line) machine 1 at every position.
MachineLines(nm) ==
    {q \in [0..(nm - 1) -> 1..nm] :
        \/ \A a, b \in 0..(nm - 1) : q[a] = q[b] => a = b
        \/ \A a \in 0..(nm - 1) : q[a] = 1}

\* The instance files: the sizes, the processing times of each job in its
\* processing order, and for each job the machines (numbered from 1) in
\* processing order.
InstanceFiles ==
    UNION { [nb_jobs : {nj}, nb_machines : {nm},
             times : TimeTables(nj, nm),
             machines : [0..(nj - 1) -> MachineLines(nm)]]
            : <<nj, nm>> \in (1..MaxJobs) \X (1..MaxMachines) }

NoFile == [nb_jobs |-> 0, nb_machines |-> 0, times |-> <<>>, machines |-> <<>>]

\* list.index(x): the first position holding x (ValueError when there is none)
Contains(list, x) == \E k \in DOMAIN list : list[k] = x
index(list, x) ==
    CHOOSE k \in DOMAIN list : list[k] = x /\ \A k2 \in DOMAIN list : k2 < k => list[k2] # x

\* machine_order[i][j] = int(lines[...].split()[j]) - 1
machine_order_of(f) ==
    [i \in 0..(f.nb_jobs - 1) |-> [k \in 0..(f.nb_machines - 1) |-> f.machines[i][k] - 1]]

\* A reordering that reads the machine order forwards instead of inverting
\* it: C8_Reorder must reject it.
reorder_forward(times, order, i, j) == times[i][order[i][j]]

\* processing_time[i][j] =
\*     processing_times_in_processing_order[i][machine_order[i].index(j)]
reorder(times, order, i, j) == times[i][index(order[i], j)]

RECURSIVE SumAll(_, _, _)
\* sum of m[i][k] over the first cnt cells of an nj x nm matrix, row by row
SumAll(m, nm, cnt) ==
    IF cnt = 0 THEN 0
    ELSE m[(cnt - 1) \div nm][(cnt - 1) % nm] + SumAll(m, nm, cnt - 1)

\* read_instance(filename).  __main__ calls it, and main() calls it again
\* on the same file.
ReadInstanceJobshop ==
    /\ At("parse")
    /\ script = "jobshop"
    /\ opened' = TRUE
    /\ \E f \in (IF js_file = NoFile THEN InstanceFiles ELSE {js_file}) :
         LET order == machine_order_of(f) IN
         /\ js_file' = f
         /\ IF \E i \in 0..(f.nb_jobs - 1), j \in 0..(f.nb_machines - 1) :
                   ~Contains(order[i], j)
            THEN /\ status' = "uncaught"
                 /\ UNCHANGED <<pc, parsed, nb_jobs, nb_machines,
                                processing_times_in_processing_order,
                                machine_order, processing_time, max_start>>
            ELSE /\ nb_jobs' = f.nb_jobs
                 /\ nb_machines' = f.nb_machines
                 /\ processing_times_in_processing_order' = f.times
                 /\ machine_order' = order
                 /\ processing_time' =
                        [i \in 0..(f.nb_jobs - 1) |->
                            [j \in 0..(f.nb_machines - 1) |-> reorder(f.times, order, i, j)]]
                 /\ max_start' = SumAll(processing_time', f.nb_machines,
                                        f.nb_jobs * f.nb_machines)
                 /\ parsed' = TRUE
                 /\ pc' = pc + 1
                 /\ UNCHANGED status
    /\ UNCHANGED <<script, argc, usagePrinted, created, built, closed,
                   timeLimitSet, evalLimitSet, iterLimitSet, solveState,
                   initialized, valuesRead, printed, written, cvrpVars,
                   revenueVars, extraVars>>

\* ------------------------------------------------------------------------
\* revenue_management: RevenueManagementFunction.evaluate
\* ------------------------------------------------------------------------

RevenueScripts == {"revenue_management", "revenue_management_"}

\* self.nb_periods, self.prices, self.mean_demands, self.purchase_price
nb_periods == 3
prices == [j \in 0..2 |-> CASE j = 0 -> 100 [] j = 1 -> 300 [] j = 2 -> 400]
mean_demands == [j \in 0..2 |-> CASE j = 0 -> 50 [] j = 1 -> 20 [] j = 2 -> 30]
purchase_price == 80

\* self.nb_simulations is int(1e6) in the source; the model runs
\* NbSimulations simulations per evaluation.
NbSimulations == 2

\* Values the solver passes for the decision variables, declared as
\* model.int(0, 100).
ArgValues == {0, 30, 50, 100}
ArgumentVectors == ArgValues \X ArgValues \X ArgValues

\* Samples of the exponential and gamma distributions, in tenths:
\* math.log(1 - u) / (-rate) with u in [0, 1) is never negative.
Samples == {0, 5, 15}

Min(a, b) == IF a <= b THEN a ELSE b
Max(a, b) == IF a >= b THEN a ELSE b

\* demand_j = int(self.mean_demands[j] * X[i] * Y[i][j]); x and y are in
\* tenths, and int() truncates.
demand(j, x, y) == (mean_demands[j] * x * y) \div 100

\* nb_units_reserved = variables[1:] + [0]
nb_units_reserved(a) == [j \in 0..2 |-> CASE j = 0 -> a[2] [] j = 1 -> a[3] [] j = 2 -> 0]

\* Sales without the floor at 0: C6_Units must reject them.
units_sold_no_floor(remaining, reserved, dem) == Min(remaining - reserved, dem)

\* Sales that ignore the reservation: C7_Reserve must reject them.
units_sold_no_reserve(remaining, reserved, dem) == Min(remaining, dem)

\* nb_units_sold = min(max(remaining_capacity - nb_units_reserved[j], 0), demand_j)
units_sold(remaining, reserved, dem) == Min(Max(remaining - reserved, 0), dem)

NoPeriod ==
    [period |-> 0, before |-> 0, reserved |-> 0, demand |-> 0, sold |-> 0,
     sold_total |-> 0, done |-> FALSE]

\* The solver calls the black-box function on a point of its choice.
EvaluateBegin ==
    /\ At("solve")
    /\ script \in RevenueScripts
    /\ solveState = "solving"
    /\ ev # "running"
    /\ \E a \in ArgumentVectors : argument_values' = a
    /\ ev' = "running"
    /\ sim_i' = 0
    /\ period_j' = 0
    /\ sum_profit' = 0
    /\ remaining_capacity' = 0
    /\ X_i' = 0
    /\ last' = NoPeriod
    /\ mean_revenue_n' = 0
    /\ UNCHANGED <<script, argc, pc, status, flowVars, cvrpVars, jobshopVars,
                   extraVars>>

\* One period of one simulation: the body of "for j in range(nb_periods)",
\* preceded for j = 0 by "remaining_capacity = nb_units_purchased".
SimulatePeriod ==
    /\ ev = "running"
    /\ sim_i < NbSimulations
    /\ \E x \in (IF period_j = 0 THEN Samples ELSE {X_i}), y \in Samples :
         LET nb_units_purchased == argument_values[1]
             reserved == nb_units_reserved(argument_values)[period_j]
             before == IF period_j = 0 THEN nb_units_purchased ELSE remaining_capacity
             demand_j == demand(period_j, x, y)
             nb_units_sold == units_sold(before, reserved, demand_j)
         IN  /\ X_i' = x
             /\ remaining_capacity' = before - nb_units_sold
             /\ sum_profit' = sum_profit + prices[period_j] * nb_units_sold
             /\ last' = [period |-> period_j, before |-> before,
                         reserved |-> reserved, demand |-> demand_j,
                         sold |-> nb_units_sold, done |-> TRUE,
                         sold_total |-> (IF period_j = 0 THEN 0 ELSE last.sold_total)
                                        + nb_units_sold]
    /\ IF period_j + 1 = nb_periods
       THEN sim_i' = sim_i + 1 /\ period_j' = 0
       ELSE period_j' = period_j + 1 /\ UNCHANGED sim_i
    /\ UNCHANGED <<argument_values, ev, mean_revenue_n>>
    /\ UNCHANGED <<script, argc, pc, status, flowVars, cvrpVars, jobshopVars,
                   extraVars>>

\* mean_profit = sum_profit / self.nb_simulations
\* mean_revenue = mean_profit - self.purchase_price * nb_units_purchased
\* The model keeps mean_revenue multiplied by the number of simulations,
\* which is an integer of the same sign.
mean_revenue_times_n(profit, purchased) ==
    profit - purchase_price * purchased * NbSimulations

EvaluateReturn ==
    /\ ev = "running"
    /\ sim_i = NbSimulations
    /\ mean_revenue_n' = mean_revenue_times_n(sum_profit, argument_values[1])
    /\ ev' = "returned"
    \* the locals of the call are gone
    /\ sim_i' = 0
    /\ period_j' = 0
    /\ X_i' = 0
    /\ remaining_capacity' = 0
    /\ sum_profit' = 0
    /\ last' = NoPeriod
    /\ UNCHANGED argument_values
    /\ UNCHANGED <<script, argc, pc, status, flowVars, cvrpVars, jobshopVars,
                   extraVars>>

\* ------------------------------------------------------------------------
\* The specification of the scripts
\* ------------------------------------------------------------------------
Next ==
    \/ Usage
    \/ CreateSolver
    \/ ReadInstance
    \/ ReadElem
    \/ HeaderStep
    \/ CoordStep
    \/ DemandSection
    \/ DemandStep
    \/ DepotSection
    \/ GetNbTrucks
    \/ ReadInstanceJobshop
    \/ Build
    \/ Close
    \/ SetTimeLimit
    \/ SetEvaluationLimit
    \/ SetIterationLimit
    \/ InitializeValues
    \/ SolveCall
    \/ SolveReturn
    \/ PrintValues
    \/ WriteOutput
    \/ Finish

Spec == Init /\ [][Next]_vars

\* revenue_management_/revenue_management.py run as its docstring says
\* ("python revenue_management.py": its arguments are fixed in the source),
\* with the black-box callbacks the solver makes while it solves.  The
\* evaluate method of revenue_management/revenue_management.py is the same
\* text.
InitRevenue == Init /\ script = "revenue_management_" /\ argc = 1

NextRevenue ==
    \/ CreateSolver
    \/ Build
    \/ Close
    \/ SetTimeLimit
    \/ SetEvaluationLimit
    \/ SolveCall
    \/ EvaluateBegin
    \/ SimulatePeriod
    \/ EvaluateReturn
    \/ SolveReturn
    \/ WriteOutput
    \/ Finish

SpecRevenue == InitRevenue /\ [][NextRevenue]_vars

\* ------------------------------------------------------------------------
\* pdptw: read_input_pdptw, the model, the solution writer
\* ------------------------------------------------------------------------

\* Pickup-and-delivery pairs in an instance file.
MaxPairs == 1

\* what the pdptw steps leave alone, besides the names shared with cvrp
pdptwRest == <<jobshopVars, revenueVars, carVars, movieVars>>

\* The input files follow the "Li & Lim" format: a first line with the
\* number of trucks, the capacity and the speed, then one line per node
\* "id x y demand ready due service pickup delivery".  The first node,
\* numbered 0, is the depot; the customers are numbered from 1, line by
\* line; a pickup names its delivery, and a delivery its pickup, by node
\* number, and 0 stands for none.
PdPoints == {<<3, 4>>, <<6, 8>>}
PdDues == {0, 20}
PdHorizons == {10, 100}

PdLine(k, pt, due, firstPicks) ==
    LET partner == IF k % 2 = 1 THEN k + 1 ELSE k - 1
        isPickup == (k % 2 = 1) = firstPicks[(k + 1) \div 2]
    IN  [id |-> k, x |-> pt[k][1], y |-> pt[k][2],
         demand |-> IF isPickup THEN 1 ELSE -1,
         ready |-> 0, due |-> due[k], stime |-> 1,
         pick |-> IF isPickup THEN 0 ELSE partner,
         delivery |-> IF isPickup THEN partner ELSE 0]

PdptwFiles ==
    UNION { { [nb_trucks |-> t, truck_capacity |-> 1, max_horizon |-> h,
               warehouse |-> <<0, 0>>,
               lines |-> [k \in 1..(2 * np) |-> PdLine(k, pt, due, fp)]]
              : t \in 1..MaxTrucks, h \in PdHorizons,
                pt \in [1..(2 * np) -> PdPoints],
                due \in [1..(2 * np) -> PdDues],
                fp \in [1..np -> BOOLEAN] }
            : np \in 0..MaxPairs }

\* "i = int(val) - 1", "pickUpIndex.append(pick - 1)",
\* "deliveryIndex.append(delivery - 1)": the index that goes with a node id.
PdIndex(id) == id - 1

\* read_input_pdptw: the lists are filled line by line, and nb_customers is
\* i + 1 for the last line read.  A file without customer leaves i unbound.
ReadInputPdptw ==
    /\ At("parse")
    /\ script = "pdptw"
    /\ opened' = TRUE
    /\ \E f \in PdptwFiles :
         LET cnt == Len(f.lines)
             column(g(_)) == [j \in 0..(cnt - 1) |-> g(f.lines[j + 1])]
             x_of(l) == l.x
             y_of(l) == l.y
             demand_of(l) == l.demand
             ready_of(l) == l.ready
             latest_of(l) == l.due + l.stime
             stime_of(l) == l.stime
             pick_of(l) == PdIndex(l.pick)
             delivery_of(l) == PdIndex(l.delivery)
         IN
         /\ pd_file' = f
         /\ nb_trucks' = f.nb_trucks
         /\ truck_capacity' = f.truck_capacity
         /\ depot_x' = f.warehouse[1]
         /\ depot_y' = f.warehouse[2]
         /\ max_horizon' = f.max_horizon
         /\ customers_x' = column(x_of)
         /\ customers_y' = column(y_of)
         /\ demands' = column(demand_of)
         /\ earliest_start' = column(ready_of)
         /\ latest_end' = column(latest_of)
         /\ service_time' = column(stime_of)
         /\ pickUpIndex' = column(pick_of)
         /\ deliveryIndex' = column(delivery_of)
         /\ IF cnt = 0
            THEN /\ status' = "uncaught"
                 /\ UNCHANGED <<nb_customers, parsed, pc>>
            ELSE /\ nb_customers' = PdIndex(f.lines[cnt].id) + 1
                 /\ parsed' = TRUE
                 /\ pc' = pc + 1
                 /\ UNCHANGED status
    /\ UNCHANGED <<script, argc, usagePrinted, created, built, closed,
                   timeLimitSet, evalLimitSet, iterLimitSet, solveState,
                   initialized, valuesRead, printed, written, rd, n, read,
                   nb_nodes, unbound, file_nodes, file_demands, routes,
                   sol_out, pdptwRest>>

\* math.sqrt(math.pow(xi - xj, 2) + math.pow(yi - yj, 2)).  The points of
\* the modelled files are such that every distance is a whole number.
pdptw_compute_dist(xi, xj, yi, yj) ==
    LET sq == (xi - xj) * (xi - xj) + (yi - yj) * (yi - yj) IN
    CHOOSE d \in 0..sq : d * d = sq

pdptw_distance_matrix ==
    [i \in DOMAIN customers_x |->
        [j \in DOMAIN customers_x |->
            pdptw_compute_dist(customers_x[i], customers_x[j],
                               customers_y[i], customers_y[j])]]

pdptw_distance_warehouses ==
    [i \in DOMAIN customers_x |->
        pdptw_compute_dist(depot_x, customers_x[i], depot_y, customers_y[i])]

\* index of customer c in the sequence seq, from 0; -1 when it is absent
\* (model.index)
PdPosition(seq, c) ==
    IF \E i \in 1..Len(seq) : seq[i] = c
    THEN (CHOOSE i \in 1..Len(seq) : seq[i] = c) - 1
    ELSE -1

\* route_quantity[i]: the demands of the first i+1 customers of the sequence
PdRouteQuantity(seq, i) ==
    SumTo([j \in 0..i |-> demands[seq[j + 1]]], i + 1)

\* The constraints of the model: the sequences partition the customers,
\* the quantity carried never exceeds the capacity, a pickup and its
\* delivery are on the same truck, the pickup first.
PdFeasible(r) ==
    \A k \in DOMAIN r :
        /\ \A i \in 0..(Len(r[k]) - 1) : PdRouteQuantity(r[k], i) <= truck_capacity
        /\ \A c \in 0..(nb_customers - 1) :
              pickUpIndex[c] = -1 =>
                  /\ (PdPosition(r[k], c) # -1) = (PdPosition(r[k], deliveryIndex[c]) # -1)
                  /\ PdPosition(r[k], c) <= PdPosition(r[k], deliveryIndex[c])

RECURSIVE PdEndTime(_, _)
\* end_time[k][i]: the end of the visit of the i-th customer (from 0) of
\* the sequence
PdEndTime(seq, i) ==
    LET cur == seq[i + 1]
        arrival == IF i = 0
                   THEN pdptw_distance_warehouses[seq[1]]
                   ELSE PdEndTime(seq, i - 1) + pdptw_distance_matrix[seq[i]][cur]
    IN  Max(earliest_start[cur], arrival) + service_time[cur]

\* home_lateness[k]
PdHomeLateness(seq) ==
    LET c == Len(seq) IN
    IF c > 0
    THEN Max(0, PdEndTime(seq, c - 1) + pdptw_distance_warehouses[seq[c]] - max_horizon)
    ELSE 0

\* lateness[k] = home_lateness[k] + sum of max(0, end_time[k][i] - latest_end)
PdLateness(seq) ==
    PdHomeLateness(seq)
    + SumTo([i \in 0..(Len(seq) - 1) |->
                Max(0, PdEndTime(seq, i) - latest_end[seq[i + 1]])], Len(seq))

\* total_lateness.value
total_lateness(r) ==
    SumTo([k \in DOMAIN r |-> PdLateness(r[k])], Cardinality(DOMAIN r))

\* route_distances[k].value
PdRouteDistance(seq) ==
    LET c == Len(seq) IN
    SumTo([i \in 0..(c - 2) |-> pdptw_distance_matrix[seq[i + 1]][seq[i + 2]]],
          IF c = 0 THEN 0 ELSE c - 1)
    + (IF c > 0
       THEN pdptw_distance_warehouses[seq[1]] + pdptw_distance_warehouses[seq[c]]
       ELSE 0)

\* total_distance.value (the distances of the modelled files are whole
\* numbers, which round(100 * d) / 100 leaves as they are)
PdTotalDistance(r) ==
    SumTo([k \in DOMAIN r |-> PdRouteDistance(r[k])], Cardinality(DOMAIN r))

\* What the list variables can hold when ls.solve() returns, the solver
\* taken at its best for the first objective: a solution that satisfies
\* the constraints and whose total lateness is the least possible.
PdSolutions ==
    LET feasible == {r \in Solutions(nb_customers, nb_trucks) : PdFeasible(r)} IN
    {r \in feasible : \A r2 \in feasible : total_lateness(r) <= total_lateness(r2)}

SolveReturnPdptw ==
    /\ At("solve")
    /\ script = "pdptw"
    /\ solveState = "solving"
    /\ solveState' = "returned"
    /\ pc' = pc + 1
    /\ routes' \in PdSolutions
    /\ UNCHANGED <<script, argc, status, usagePrinted, created, opened, parsed,
                   built, closed, timeLimitSet, evalLimitSet, iterLimitSet,
                   initialized, valuesRead, printed, written,
                   rd, n, read, cvrpData, nb_trucks, sol_out, otherVars>>

\* "+2 is to put it back in [2..nbCustomers+1] as in the data files
\* (1 being the depot)": f.write("%d " % (customer + 2))
PdOutputId(customer) == customer + 2

RECURSIVE PdUsedRoutes(_, _)
\* the route lines of the trucks k..nb_trucks-1 that are used
PdUsedRoutes(r, k) ==
    IF k >= Cardinality(DOMAIN r) THEN <<>>
    ELSE (IF truck_used(r, k)
          THEN <<[i \in 1..Len(r[k]) |-> PdOutputId(r[k][i])]>>
          ELSE <<>>) \o PdUsedRoutes(r, k + 1)

\* if len(sys.argv) >= 3: the number of trucks used and the total distance,
\* then for each truck used the nodes visited.
WriteOutputPdptw ==
    /\ At("write")
    /\ script = "pdptw"
    /\ pc' = pc + 1
    /\ IF WritesOutput(script, argc)
       THEN /\ valuesRead' = TRUE
            /\ written' = TRUE
            /\ sol_out' = <<<<nb_trucks_used(routes), PdTotalDistance(routes)>>>>
                          \o PdUsedRoutes(routes, 0)
       ELSE UNCHANGED <<valuesRead, written, sol_out>>
    /\ UNCHANGED <<script, argc, status, usagePrinted, created, opened, parsed,
                   built, closed, timeLimitSet, evalLimitSet, iterLimitSet,
                   solveState, initialized, printed,
                   rd, n, read, cvrpData, nb_trucks, routes, otherVars>>

\* pdptw.py run on an instance file, the reader, the solver's result and
\* the writer in detail.
InitPdptw == Init /\ script = "pdptw"

NextPdptw ==
    \/ Usage
    \/ ReadInputPdptw
    \/ CreateSolver
    \/ Build
    \/ Close
    \/ SetTimeLimit
    \/ SolveCall
    \/ SolveReturnPdptw
    \/ WriteOutputPdptw
    \/ Finish

SpecPdptw == InitPdptw /\ [][NextPdptw]_vars

\* ------------------------------------------------------------------------
\* car_sequencing: the instance, the objective, the solution writer
\* ------------------------------------------------------------------------

MaxPositions == 3
MaxOptions == 2
MaxClasses == 2
MaxWindow == 2

\* what the car_sequencing steps leave alone
carsRest == <<cvrpVars, jobshopVars, revenueVars, pdptwVars, movieVars>>

\* The instance files: nb_positions, nb_options, nb_classes, for each
\* option the cars allowed per window and the size of the window, and for
\* each class its number of cars and its options.  The cars of the classes
\* fill the positions.
CarFiles ==
    UNION { { [nb_positions |-> np, nb_options |-> no, nb_classes |-> nc,
               max_cars_per_window |-> mc, window_size |-> ws,
               nb_cars |-> cars, options |-> opt]
              : mc \in [0..(no - 1) -> 0..1],
                ws \in [0..(no - 1) -> 1..MaxWindow],
                cars \in {q \in [0..(nc - 1) -> 0..np] : SumTo(q, nc) = np},
                opt \in [0..(nc - 1) -> [0..(no - 1) -> BOOLEAN]] }
            : <<np, no, nc>> \in (1..MaxPositions) \X (0..MaxOptions) \X (1..MaxClasses) }

\* file_it = iter(read_integers(sys.argv[1])) and the reading of the data
ReadCars ==
    /\ At("parse")
    /\ script = "car_sequencing"
    /\ opened' = TRUE
    /\ parsed' = TRUE
    /\ pc' = pc + 1
    /\ car_instance' \in CarFiles
    /\ UNCHANGED <<script, argc, status, usagePrinted, created, built, closed,
                   timeLimitSet, evalLimitSet, iterLimitSet, solveState,
                   initialized, valuesRead, printed, written,
                   total_violations_operands, class_on_pos, car_out, carsRest>>

\* range(nb_positions - window_size[o] + 1): the p for which
\* nb_cars_windows[o][p] and nb_violations_windows[o][p] are created; the
\* other entries of these lists stay None.
WindowStarts(d, o) == 0..(d.nb_positions - d.window_size[o])

\* The value of o when the generator expression of total_violations is
\* created: its first iterable, range(nb_positions - window_size[o] + 1),
\* is evaluated then, once, with the o left by the loop "for o in
\* range(nb_options)" that precedes it.
LeftoverOption(d) == d.nb_options - 1

\* The pairs <<o, p>> that "nb_violations_windows[o][p] for p in
\* range(nb_positions - window_size[o] + 1) for o in range(nb_options)"
\* yields, in order.
ObjectiveOperands(d) ==
    LET windows == d.nb_positions - d.window_size[LeftoverOption(d)] + 1
        count == IF windows > 0 THEN windows * d.nb_options ELSE 0
    IN  [t \in 1..count |-> <<(t - 1) % d.nb_options, (t - 1) \div d.nb_options>>]

\* The declaration of the model.  Without option, o is not bound when the
\* objective is created (NameError); an operand that is None cannot be
\* summed.
BuildCars ==
    /\ At("build")
    /\ script = "car_sequencing"
    /\ LET d == car_instance IN
       IF d.nb_options = 0
       THEN /\ status' = "uncaught"
            /\ UNCHANGED <<pc, built, total_violations_operands>>
       ELSE IF \E t \in DOMAIN ObjectiveOperands(d) :
                  ObjectiveOperands(d)[t][2] \notin WindowStarts(d, ObjectiveOperands(d)[t][1])
       THEN /\ status' = "uncaught"
            /\ UNCHANGED <<pc, built, total_violations_operands>>
       ELSE /\ total_violations_operands' = ObjectiveOperands(d)
            /\ built' = TRUE
            /\ pc' = pc + 1
            /\ UNCHANGED status
    /\ UNCHANGED <<script, argc, usagePrinted, created, opened, parsed, closed,
                   timeLimitSet, evalLimitSet, iterLimitSet, solveState,
                   initialized, valuesRead, printed, written,
                   car_instance, class_on_pos, car_out, carsRest>>

\* The values the decisions can hold when ls.solve() returns: every
\* position holds one car, and class c is at nb_cars[c] positions.
CarSolutions(d) ==
    {x \in [0..(d.nb_classes - 1) -> [0..(d.nb_positions - 1) -> 0..1]] :
        /\ \A c \in 0..(d.nb_classes - 1) : SumTo(x[c], d.nb_positions) = d.nb_cars[c]
        /\ \A q \in 0..(d.nb_positions - 1) :
              SumTo([c \in 0..(d.nb_classes - 1) |-> x[c][q]], d.nb_classes) = 1}

SolveReturnCars ==
    /\ At("solve")
    /\ script = "car_sequencing"
    /\ solveState = "solving"
    /\ solveState' = "returned"
    /\ pc' = pc + 1
    /\ class_on_pos' \in CarSolutions(car_instance)
    /\ UNCHANGED <<script, argc, status, usagePrinted, created, opened, parsed,
                   built, closed, timeLimitSet, evalLimitSet, iterLimitSet,
                   initialized, valuesRead, printed, written,
                   car_instance, total_violations_operands, car_out, carsRest>>

\* options_on_pos[o][p].value: some class with option o is at position p
options_on_pos(d, x, o, q) ==
    IF \E c \in 0..(d.nb_classes - 1) : d.options[c][o] /\ x[c][q] = 1 THEN 1 ELSE 0

\* nb_cars_windows[o][p].value
nb_cars_windows(d, x, o, q) ==
    SumTo([k \in 0..(d.window_size[o] - 1) |-> options_on_pos(d, x, o, q + k)],
          d.window_size[o])

\* nb_violations_windows[o][p].value
nb_violations_windows(d, x, o, q) ==
    Max(nb_cars_windows(d, x, o, q) - d.max_cars_per_window[o], 0)

\* total_violations.value: the sum of its operands
total_violations(d, x, operands) ==
    SumTo([t \in 0..(Len(operands) - 1) |->
              nb_violations_windows(d, x, operands[t + 1][1], operands[t + 1][2])],
          Len(operands))

\* if len(sys.argv) >= 3: f.write("%d\n" % total_violations.value) ...
WriteOutputCars ==
    /\ At("write")
    /\ script = "car_sequencing"
    /\ pc' = pc + 1
    /\ IF WritesOutput(script, argc)
       THEN /\ valuesRead' = TRUE
            /\ written' = TRUE
            /\ car_out' = total_violations(car_instance, class_on_pos,
                                           total_violations_operands)
       ELSE UNCHANGED <<valuesRead, written, car_out>>
    /\ UNCHANGED <<script, argc, status, usagePrinted, created, opened, parsed,
                   built, closed, timeLimitSet, evalLimitSet, iterLimitSet,
                   solveState, initialized, printed,
                   car_instance, total_violations_operands, class_on_pos, carsRest>>

\* car_sequencing.py run on an instance file.
InitCars == Init /\ script = "car_sequencing"

NextCars ==
    \/ Usage
    \/ CreateSolver
    \/ ReadCars
    \/ BuildCars
    \/ Close
    \/ SetTimeLimit
    \/ SolveCall
    \/ SolveReturnCars
    \/ WriteOutputCars
    \/ Finish

SpecCars == InitCars /\ [][NextCars]_vars

\* ------------------------------------------------------------------------
\* movie_shoot_scheduling: MssInstance, CostFunction.compute_cost
\* ------------------------------------------------------------------------

MaxActors == 1
MaxScenes == 3
MaxLocations == 2

\* what the movie_shoot_scheduling steps leave alone
movieRest == <<cvrpVars, jobshopVars, revenueVars, pdptwVars, carVars>>

\* _compute_nb_worked_days: for each actor the durations of its scenes
nb_worked_days(ns, duration, in_scene, a) ==
    SumTo([sc \in 0..(ns - 1) |-> IF in_scene[a][sc] = 1 THEN duration[sc] ELSE 0], ns)

\* The instance files: the numbers of actors, scenes, locations and
\* precedences, the costs of the actors and of the locations, the duration
\* and the location of each scene, and which actor plays in which scene.
\* Costs are not negative and durations are positive: an actor costs 2 a
\* day, a location costs 0 or 5, a scene lasts 1 or 2 days.  The modelled
\* files hold no precedence (compute_cost does not read them).
MssFiles ==
    UNION { { [nb_actors |-> na, nb_scenes |-> ns, nb_locations |-> nl,
               nb_precedences |-> 0,
               actor_cost |-> ac, location_cost |-> lc,
               scene_duration |-> du, scene_location |-> sl,
               is_actor_in_scene |-> ins,
               actor_nb_worked_days |->
                   [a \in 0..(na - 1) |-> nb_worked_days(ns, du, ins, a)]]
              : ac \in [0..(na - 1) -> {2}],
                lc \in [0..(nl - 1) -> {0, 5}],
                du \in [0..(ns - 1) -> 1..2],
                sl \in [0..(ns - 1) -> 0..(nl - 1)],
                ins \in [0..(na - 1) -> [0..(ns - 1) -> 0..1]] }
            : <<na, ns, nl>> \in (0..MaxActors) \X (1..MaxScenes) \X (1..MaxLocations) }

\* data = MssInstance(instance_file)
ReadMss ==
    /\ At("parse")
    /\ script = "movie_shoot_scheduling"
    /\ opened' = TRUE
    /\ parsed' = TRUE
    /\ pc' = pc + 1
    /\ mss_data' \in MssFiles
    /\ UNCHANGED <<script, argc, status, usagePrinted, created, built, closed,
                   timeLimitSet, evalLimitSet, iterLimitSet, solveState,
                   initialized, valuesRead, printed, written,
                   shoot_order, cost_state, cost_value, movieRest>>

RECURSIVE nb_location_visits(_, _, _, _)
\* nb_location_visits[loc] after the first cnt scenes of the order: the
\* number of times the shooting moves to loc
nb_location_visits(d, order, loc, cnt) ==
    IF cnt = 0 THEN 0
    ELSE LET current_location == d.scene_location[order[cnt]]
             previous_location ==
                 IF cnt = 1 THEN -1 ELSE d.scene_location[order[cnt - 1]]
         IN  nb_location_visits(d, order, loc, cnt - 1)
             + (IF previous_location # current_location /\ current_location = loc
                THEN 1 ELSE 0)

\* _compute_location_cost: sum(cost * (nb_visits - 1) ...)
compute_location_cost(d, order) ==
    SumTo([loc \in 0..(d.nb_locations - 1) |->
              d.location_cost[loc] * (nb_location_visits(d, order, loc, d.nb_scenes) - 1)],
          d.nb_locations)

\* start_day_of_scene and end_day_of_scene of the i-th scene shot (from 0)
start_day_of_scene(d, order, i) ==
    SumTo([i2 \in 0..(i - 1) |-> d.scene_duration[order[i2 + 1]]], i)
end_day_of_scene(d, order, i) ==
    start_day_of_scene(d, order, i) + d.scene_duration[order[i + 1]] - 1

\* The ranks (from 0) at which actor j plays.
ActorRanks(d, order, j) ==
    {i \in 0..(d.nb_scenes - 1) : d.is_actor_in_scene[j][order[i + 1]] = 1}

\* actor_first_day[j] and actor_last_day[j]: 0 when the actor never plays
actor_first_day(d, order, j) ==
    IF ActorRanks(d, order, j) = {} THEN 0
    ELSE start_day_of_scene(d, order,
             CHOOSE i \in ActorRanks(d, order, j) :
                 \A i2 \in ActorRanks(d, order, j) : i <= i2)
actor_last_day(d, order, j) ==
    IF ActorRanks(d, order, j) = {} THEN 0
    ELSE end_day_of_scene(d, order,
             CHOOSE i \in ActorRanks(d, order, j) :
                 \A i2 \in ActorRanks(d, order, j) : i >= i2)

\* _compute_actor_cost: the days paid but not worked, times the actor's cost
compute_actor_cost(d, order) ==
    SumTo([j \in 0..(d.nb_actors - 1) |->
              (actor_last_day(d, order, j) - actor_first_day(d, order, j) + 1
               - d.actor_nb_worked_days[j]) * d.actor_cost[j]],
          d.nb_actors)

\* What compute_cost returns for a complete order.
compute_cost(d, order) == compute_location_cost(d, order) + compute_actor_cost(d, order)

\* The solver calls compute_cost on a value of the list shoot_order: some
\* scenes, each once, in some order.  An order that misses scenes gets
\* sys.maxsize.
ComputeCost ==
    /\ At("solve")
    /\ script = "movie_shoot_scheduling"
    /\ solveState = "solving"
    /\ \E order \in ListValues(mss_data.nb_scenes) :
         /\ shoot_order' = order
         /\ IF Len(order) < mss_data.nb_scenes
            THEN cost_state' = "maxsize" /\ cost_value' = 0
            ELSE cost_state' = "value" /\ cost_value' = compute_cost(mss_data, order)
    /\ UNCHANGED <<script, argc, pc, status, flowVars, mss_data, movieRest>>

\* movie_shoot_scheduling.py run on an instance file, with the calls the
\* solver makes to the external function while it solves.
InitMovie == Init /\ script = "movie_shoot_scheduling"

NextMovie ==
    \/ Usage
    \/ ReadMss
    \/ CreateSolver
    \/ Build
    \/ Close
    \/ SetTimeLimit
    \/ SolveCall
    \/ ComputeCost
    \/ SolveReturn
    \/ PrintValues
    \/ WriteOutput
    \/ Finish

SpecMovie == InitMovie /\ [][NextMovie]_vars

\* ------------------------------------------------------------------------
\* Properties of the control flow of the scripts
\* ------------------------------------------------------------------------

HasStep(s, op) == \E i \in DOMAIN Program(s) : Program(s)[i] = op

\* The scripts that assign values to decision variables themselves.
InitializingScripts == {"transport_v0", "assembly_line_balancing"}

\* C1, as stated: the steps come in the order parse, build, close, solve,
\* report; solve is never called before model.close(); and no solution
\* value is read or written by the script before solve has returned.
C1_Original ==
    /\ built => (HasStep(script, "parse") => parsed)
    /\ closed => built
    /\ solveState # "idle" => closed
    /\ (initialized \/ valuesRead \/ printed \/ written) => solveState = "returned"

\* C1, amended: the steps come in the order parse, build, close, solve,
\* report; solve is never called before model.close(); no value is read
\* for reporting, printed or written to the output file before solve has
\* returned.  Values are assigned to decision variables before solve, and
\* after model.close(), by transport_v0 and assembly_line_balancing only.
C1_StepOrder ==
    /\ built => (HasStep(script, "parse") => parsed)
    /\ closed => built
    /\ solveState # "idle" => closed
    /\ (valuesRead \/ printed \/ written) => solveState = "returned"
    /\ initialized => (closed /\ script \in InitializingScripts)
    /\ (script \in InitializingScripts /\ solveState # "idle") => initialized

C1_Witness ==
    /\ script = "assembly_line_balancing"
    /\ initialized
    /\ parsed /\ built /\ closed
    /\ solveState = "returned"
    /\ written
    /\ status = "done"

TransportScripts ==
    {"transport_v0", "transport_v1", "transport_v3", "transport_v4", "transport_v5"}

\* C2, as stated: when solve is called, a time limit or an evaluation limit
\* has been set.
C2_Original ==
    solveState # "idle" => (timeLimitSet \/ evalLimitSet)

\* C2, amended: when solve is called, a time limit or an evaluation limit
\* has been set, except in the transport scripts, which set an iteration
\* limit and neither of the other two, and in tuple, which sets no limit.
C2_Budget ==
    solveState # "idle" =>
        CASE script = "tuple" -> ~timeLimitSet /\ ~evalLimitSet /\ ~iterLimitSet
          [] script \in TransportScripts ->
                iterLimitSet /\ ~timeLimitSet /\ ~evalLimitSet
          [] OTHER -> (timeLimitSet \/ evalLimitSet) /\ ~iterLimitSet

C2_Witness ==
    /\ script = "revenue_management"
    /\ argc = 2
    /\ solveState = "solving"
    /\ evalLimitSet
    /\ ~timeLimitSet

\* The scripts that have no output file.
NoFileScripts == {"toy", "tsp", "tuple"} \cup TransportScripts

\* The scripts whose output path is written in the source.
FixedPathScripts ==
    {"Quadratic_Assignment_Problem", "qap_", "flow_shop", "aircraft_landing",
     "flexible_jobshop", "pooling", "jobshop", "blending", "optimal_bucket_",
     "black_box_optimizer", "revenue_management_"}

\* The scripts that take no instance file: the output path is sys.argv[1].
NoInstanceScripts == {"branin", "optimal_bucket", "hosaki", "revenue_management"}

OutputPathPresent ==
    CASE script \in FixedPathScripts -> TRUE
      [] script \in NoInstanceScripts -> argc >= 2
      [] OTHER -> argc >= 3

\* C3, as stated: a script that ran to its end, the solver having
\* returned, has written values to the output file.
C3_Original ==
    (status = "done" /\ solveState = "returned") => written

\* C3, amended: a script that ran to its end has written values to the
\* output file exactly when it has an output file and the path of that
\* file is present (on the command line, or fixed in the source).  Of the
\* scripts without output file, toy reports nothing and the others print
\* to stdout.  Nothing is written before the solver has returned.
C3_Output ==
    /\ status = "done" =>
          /\ solveState = "returned"
          /\ written <=> (script \notin NoFileScripts /\ OutputPathPresent)
          /\ (script \in NoFileScripts \ {"toy"}) => printed
          /\ script = "toy" => (~valuesRead /\ ~printed)
    /\ written => solveState = "returned"

C3_Witness ==
    /\ script = "knapsack"
    /\ argc = 3
    /\ status = "done"
    /\ written

\* The scripts C9 names.
C9Scripts ==
    {"cvrp", "pdptw", "knapsack", "movie_shoot_scheduling", "steel_mill_slab_design"}

\* C9: started without instance argument, each of cvrp, pdptw, knapsack,
\* movie_shoot_scheduling and steel_mill_slab_design is at its usage check
\* or has printed the usage line and exited with status 1; it never opens
\* a file, creates a solver or solves.
C9_Usage ==
    (script \in C9Scripts /\ argc < 2) =>
        /\ pc = 1
        /\ Program(script)[1] = "usage"
        /\ status \in {"running", "exit1"}
        /\ status = "exit1" <=> usagePrinted
        /\ ~opened /\ ~created /\ ~parsed /\ ~built
        /\ solveState = "idle"
        /\ ~written

C9_Witness ==
    /\ script = "steel_mill_slab_design"
    /\ argc = 1
    /\ status = "exit1"
    /\ usagePrinted
    /\ ~opened /\ ~created

\* ------------------------------------------------------------------------
\* Properties of cvrp
\* ------------------------------------------------------------------------

\* The last step of the reader met one of the malformations: an edge weight
\* type other than EUC_2D; a node index that is not the next one, in the
\* coordinates or in the demands; a non-zero demand for the depot; a token
\* other than DEMAND_SECTION or DEPOT_SECTION where that one is expected; a
\* warehouse id other than 1; a depot section not closed by -1.
MalformedRead ==
    LET t == read.tokens IN
    \/ /\ read.phase = "header"
       /\ Len(t) = 3
       /\ t[1] = "EDGE_WEIGHT_TYPE"
       /\ t[3] # "EUC_2D"
    \/ /\ read.phase \in {"coords", "demands"}
       /\ read.n < nb_nodes
       /\ IsNumeral(t[1])
       /\ int(t[1]) # read.n + 1
    \/ /\ read.phase = "demands"
       /\ read.n < nb_nodes
       /\ Len(t) = 2
       /\ t[1] = "1"
       /\ int(t[2]) # 0
    \/ /\ read.phase = "coords"
       /\ read.n = nb_nodes
       /\ t[1] \notin {"DEMAND_SECTION", EOF}
    \/ /\ read.phase = "demands"
       /\ read.n = nb_nodes
       /\ t[1] \notin {"DEPOT_SECTION", EOF}
    \/ /\ read.phase = "demands"
       /\ read.n = nb_nodes
       /\ Len(t) >= 2
       /\ t[1] = "DEPOT_SECTION"
       /\ int(t[2]) # 1
    \/ /\ read.phase = "demands"
       /\ read.n = nb_nodes
       /\ Len(t) = 3
       /\ t[1] = "DEPOT_SECTION"
       /\ int(t[2]) = 1
       /\ int(t[3]) # -1

\* C4: when read_input_cvrp meets one of the malformations, cvrp has exited
\* with status 1, and no solver was created, no model built, nothing solved
\* or written.
C4_Malformed ==
    (script = "cvrp" /\ MalformedRead) =>
        /\ status = "exit1"
        /\ ~parsed
        /\ ~created /\ ~built /\ ~closed
        /\ solveState = "idle"
        /\ ~written

\* A demand section whose first line gives the depot a demand of 2.
C4_Witness ==
    /\ script = "cvrp"
    /\ read.phase = "demands"
    /\ read.n = 0
    /\ read.tokens = <<"1", "2">>
    /\ status = "exit1"
    /\ ~built

\* The line of NODE_COORD_SECTION, resp. DEMAND_SECTION, that carries the
\* node id w.
NodeLine(w) == CHOOSE l \in Range(file_nodes) : int(l[1]) = w
DemandLine(w) == CHOOSE l \in Range(file_demands) : int(l[1]) = w

\* The trucks whose route is not empty, in increasing order.
UsedTrucks == {k \in DOMAIN routes : Len(routes[k]) > 0}
NthUsedTruck(m) ==
    CHOOSE k \in UsedTrucks : Cardinality({k2 \in UsedTrucks : k2 < k}) = m - 1

\* C10: once cvrp has read its instance, the customer with node id w of the
\* file (w in 2..nb_nodes) is held at index w-2: its coordinates and its
\* demand are those of the lines of the file that carry the id w.  Once
\* the solution is written, every id on a route line is the node id of the
\* file whose coordinates and demand the customer at that place of the
\* truck's sequence has.
C10_RoundTrip ==
    /\ (script = "cvrp" /\ parsed) =>
          \A w \in 2..nb_nodes :
              /\ customers_x[w - 2] = int(NodeLine(w)[2])
              /\ customers_y[w - 2] = int(NodeLine(w)[3])
              /\ demands[w - 2] = int(DemandLine(w)[2])
    /\ (script = "cvrp" /\ written) =>
          /\ Len(sol_out) = 1 + Cardinality(UsedTrucks)
          /\ \A m \in 1..Cardinality(UsedTrucks) :
                LET k == NthUsedTruck(m) IN
                /\ Len(sol_out[m + 1]) = Len(routes[k])
                /\ \A i \in 1..Len(routes[k]) :
                      LET w == sol_out[m + 1][i]
                          c == routes[k][i]
                      IN  /\ w \in 2..nb_nodes
                          /\ customers_x[c] = int(NodeLine(w)[2])
                          /\ customers_y[c] = int(NodeLine(w)[3])
                          /\ demands[c] = int(DemandLine(w)[2])

\* Two customers that differ in place and in demand, served by one truck,
\* node 3 before node 2.
C10_Witness ==
    /\ script = "cvrp"
    /\ written
    /\ nb_customers = 2
    /\ customers_x[0] # customers_x[1]
    /\ demands[0] # demands[1]
    /\ \E m \in 2..Len(sol_out) : sol_out[m] = <<3, 2>>

\* ------------------------------------------------------------------------
\* Properties of jobshop
\* ------------------------------------------------------------------------

IsPermutation(order, nm) ==
    \A j \in 0..(nm - 1) : \E k \in 0..(nm - 1) : order[k] = j

\* C8: once read_instance has returned, for every job i whose machine order
\* is a permutation of the machines and every position k,
\* processing_time[i][machine_order[i][k]] is the k-th processing time of
\* job i in the file.
C8_Reorder ==
    (script = "jobshop" /\ parsed) =>
        \A i \in 0..(nb_jobs - 1) :
            IsPermutation(machine_order[i], nb_machines) =>
                \A k \in 0..(nb_machines - 1) :
                    processing_time[i][machine_order[i][k]] =
                        processing_times_in_processing_order[i][k]

\* A job that visits machines 1, 2, 0 in that order (a permutation that is
\* not its own inverse), with processing times that differ.
C8_Witness ==
    /\ script = "jobshop"
    /\ parsed
    /\ nb_machines = 3
    /\ machine_order[0] = [k \in 0..2 |-> (k + 1) % 3]
    /\ processing_times_in_processing_order[0][0] #
           processing_times_in_processing_order[0][1]
    /\ processing_time[0][1] = processing_times_in_processing_order[0][0]

\* ------------------------------------------------------------------------
\* Properties of RevenueManagementFunction.evaluate
\* ------------------------------------------------------------------------

\* variables[0] >= variables[1] >= variables[2], all in [0, 100]
OrderedArguments ==
    /\ \A k \in 1..3 : argument_values[k] \in 0..100
    /\ argument_values[1] >= argument_values[2]
    /\ argument_values[2] >= argument_values[3]

C6_Units ==
    (ev = "running" /\ last.done) =>
        /\ last.sold >= 0
        /\ remaining_capacity >= 0
        /\ last.sold_total <= argument_values[1]
        /\ remaining_capacity = argument_values[1] - last.sold_total

\* The whole purchase is sold by the end of the last period.
C6_Witness ==
    /\ ev = "running"
    /\ last.done
    /\ last.period = 2
    /\ last.sold > 0
    /\ argument_values[1] > 0
    /\ last.sold_total = argument_values[1]
    /\ remaining_capacity = 0

\* The quantity reserved for the periods after period j.
ReservedAfter(j) == IF j = nb_periods - 1 THEN 0 ELSE argument_values[j + 2]

\* C7: after a period, the remaining capacity is at least the smaller of
\* the capacity before the period and the quantity reserved for the later
\* periods; in the last period nothing is reserved and the units sold are
\* the smaller of the remaining capacity and the demand.
C7_Reserve ==
    (ev = "running" /\ last.done) =>
        /\ remaining_capacity >= Min(last.before, ReservedAfter(last.period))
        /\ last.period = nb_periods - 1 => last.sold = Min(last.before, last.demand)

\* A period whose demand exceeds what is not reserved: the sales stop at
\* the reservation.
C7_Witness ==
    /\ ev = "running"
    /\ last.done
    /\ last.period = 0
    /\ last.demand > last.before - ReservedAfter(0)
    /\ ReservedAfter(0) > 0
    /\ last.before > ReservedAfter(0)
    /\ remaining_capacity = ReservedAfter(0)

\* ------------------------------------------------------------------------
\* Properties of pdptw
\* ------------------------------------------------------------------------

\* C11: in pdptw, a customer is held at the index that goes with its node
\* id in the file (its own data, and the references to its pickup and to
\* its delivery), and every customer on a route line of the solution file
\* is written under the node id it has in the instance file.
C11_SameId ==
    /\ (script = "pdptw" /\ parsed) =>
          \A k \in 1..Len(pd_file.lines) :
              LET l == pd_file.lines[k] IN
              /\ customers_x[l.id - 1] = l.x
              /\ customers_y[l.id - 1] = l.y
              /\ demands[l.id - 1] = l.demand
              /\ pickUpIndex[l.id - 1] = l.pick - 1
              /\ deliveryIndex[l.id - 1] = l.delivery - 1
    /\ (script = "pdptw" /\ written) =>
          /\ Len(sol_out) = 1 + Cardinality(UsedTrucks)
          /\ \A m \in 1..Cardinality(UsedTrucks) :
                LET k == NthUsedTruck(m) IN
                /\ Len(sol_out[m + 1]) = Len(routes[k])
                /\ \A i \in 1..Len(routes[k]) :
                      sol_out[m + 1][i] = pd_file.lines[routes[k][i] + 1].id

\* C12: every solution that pdptw writes to its solution file has a total
\* lateness of 0.
C12_NoLateness ==
    (script = "pdptw" /\ written) => total_lateness(routes) = 0

\* ------------------------------------------------------------------------
\* Properties of car_sequencing
\* ------------------------------------------------------------------------

\* The violations of all options and all windows for the cars as placed.
AllViolations(d, x) ==
    SumTo([o \in 0..(d.nb_options - 1) |->
              SumTo([q \in 0..(d.nb_positions - d.window_size[o]) |->
                        Max(SumTo([k \in 0..(d.window_size[o] - 1) |->
                                      IF \E c \in 0..(d.nb_classes - 1) :
                                             d.options[c][o] /\ x[c][q + k] = 1
                                      THEN 1 ELSE 0], d.window_size[o])
                            - d.max_cars_per_window[o], 0)],
                    Max(d.nb_positions - d.window_size[o] + 1, 0))],
          d.nb_options)

\* C13: once the model of car_sequencing is declared, the objective
\* total_violations has exactly one operand for every option o and every
\* window start p with 0 <= p <= nb_positions - window_size[o], and no
\* other operand; the objective value written is the sum of the violations
\* of all options and all windows.
C13_AllWindows ==
    /\ (script = "car_sequencing" /\ built) =>
          LET d == car_instance
              ops == total_violations_operands
          IN  /\ \A o \in 0..(d.nb_options - 1) :
                    \A q \in 0..(d.nb_positions - d.window_size[o]) :
                        Cardinality({t \in DOMAIN ops : ops[t] = <<o, q>>}) = 1
              /\ \A t \in DOMAIN ops :
                    /\ ops[t][1] \in 0..(d.nb_options - 1)
                    /\ ops[t][2] \in 0..(d.nb_positions - d.window_size[ops[t][1]])
    /\ (script = "car_sequencing" /\ written) =>
          car_out = AllViolations(car_instance, class_on_pos)

\* ------------------------------------------------------------------------
\* Properties of movie_shoot_scheduling
\* ------------------------------------------------------------------------

\* Costs are not negative, durations are positive, and the order holds
\* every scene once.
MssPrecondition ==
    /\ \A a \in 0..(mss_data.nb_actors - 1) : mss_data.actor_cost[a] >= 0
    /\ \A l \in 0..(mss_data.nb_locations - 1) : mss_data.location_cost[l] >= 0
    /\ \A sc \in 0..(mss_data.nb_scenes - 1) : mss_data.scene_duration[sc] > 0
    /\ Len(shoot_order) = mss_data.nb_scenes
    /\ \A sc \in 0..(mss_data.nb_scenes - 1) :
          \E i \in 1..Len(shoot_order) : shoot_order[i] = sc

\* C14: compute_cost, called on an order that is a permutation of all the
\* scenes of an instance with non-negative costs and positive durations,
\* returns a value that is not below 0, the lower bound declared for the
\* external function.
C14_LowerBound ==
    (script = "movie_shoot_scheduling" /\ cost_state = "value" /\ MssPrecondition)
        => cost_value >= 0
====
